---------------------------- MODULE Spec2Model ----------------------------
(***************************************************************************)
(* Model of src/main.py, class Converter: the category classifier, the     *)
(* default renderer, the "Effective" series aggregator and the series      *)
(* finalizer of create_files.                                              *)
(*                                                                         *)
(* Texts are TLA+ strings; a file is the sequence of its lines, each with  *)
(* its line terminator, as Python's "for line in infile" yields them.      *)
(* A Python dict is a sequence of <<key, value>> entries in insertion      *)
(* order, because create_files iterates dicts in that order.               *)
(***************************************************************************)
EXTENDS Integers, Sequences, FiniteSets, TLC

(***************************************************************************)
(* Bounds of the model.                                                    *)
(***************************************************************************)
MaxFiles == 2      \* longest input file sequence handed to create_files
MaxRuns == 2       \* calls of create_files in one behaviour

(***************************************************************************)
(* String primitives of Python used by the converter.                      *)
(***************************************************************************)
Ch(s, i) == SubSeq(s, i, i)

Drop(s, n) == SubSeq(s, n + 1, Len(s))

StartsWith(s, p) == Len(s) >= Len(p) /\ SubSeq(s, 1, Len(p)) = p

EndsWith(s, p) == Len(s) >= Len(p) /\ SubSeq(s, Len(s) - Len(p) + 1, Len(s)) = p

\* Python: p in s
Contains(s, p) == \E i \in 1..(Len(s) - Len(p) + 1) : SubSeq(s, i, i + Len(p) - 1) = p

\* Python: s.replace(old, new), every non-overlapping occurrence, left to right
RECURSIVE Replace(_, _, _)
Replace(s, old, new) ==
    IF Len(s) < Len(old) THEN s
    ELSE IF StartsWith(s, old) THEN new \o Replace(Drop(s, Len(old)), old, new)
    ELSE Ch(s, 1) \o Replace(Drop(s, 1), old, new)

IsSpace(c) == c \in {" ", "\n", "\t", "\r"}

RECURSIVE LStrip(_)
LStrip(s) == IF Len(s) > 0 /\ IsSpace(Ch(s, 1)) THEN LStrip(Drop(s, 1)) ELSE s

RECURSIVE RStrip(_)
RStrip(s) ==
    IF Len(s) > 0 /\ IsSpace(Ch(s, Len(s))) THEN RStrip(SubSeq(s, 1, Len(s) - 1)) ELSE s

\* Python: s.strip()
Strip(s) == RStrip(LStrip(s))

LowerChars == "abcdefghijklmnopqrstuvwxyz"

UpperChars == "ABCDEFGHIJKLMNOPQRSTUVWXYZ"

\* position of the one-character string c in the alphabet, 0 when absent
IndexIn(c, alphabet) ==
    IF \E i \in 1..Len(alphabet) : Ch(alphabet, i) = c
    THEN CHOOSE i \in 1..Len(alphabet) : Ch(alphabet, i) = c
    ELSE 0

Upper(c) == IF IndexIn(c, LowerChars) > 0 THEN Ch(UpperChars, IndexIn(c, LowerChars)) ELSE c

Lower(c) == IF IndexIn(c, UpperChars) > 0 THEN Ch(LowerChars, IndexIn(c, UpperChars)) ELSE c

RECURSIVE LowerAll(_)
LowerAll(s) == IF Len(s) = 0 THEN s ELSE Lower(Ch(s, 1)) \o LowerAll(Drop(s, 1))

\* Python: s.lower() is LowerAll; s.capitalize() upper-cases the first
\* character and lower-cases every other one
Capitalize(s) == IF Len(s) = 0 THEN s ELSE Upper(Ch(s, 1)) \o LowerAll(Drop(s, 1))

Digits == "0123456789"

IsDigit(c) == IndexIn(c, Digits) > 0

\* Python: int(s) for a string of decimal digits
RECURSIVE ParseInt(_)
ParseInt(s) ==
    IF Len(s) = 0 THEN 0
    ELSE 10 * ParseInt(SubSeq(s, 1, Len(s) - 1)) + (IndexIn(Ch(s, Len(s)), Digits) - 1)

\* Python: "{}".format(n) for a non-negative integer
RECURSIVE IntToStr(_)
IntToStr(n) ==
    IF n < 10 THEN Ch(Digits, n + 1)
    ELSE IntToStr(n \div 10) \o Ch(Digits, (n % 10) + 1)

\* Python: s.split(sep) for a one-character separator
RECURSIVE Split(_, _)
Split(s, sep) ==
    IF ~Contains(s, sep) THEN <<s>>
    ELSE LET i == CHOOSE k \in 1..Len(s) :
                      Ch(s, k) = sep /\ \A j \in 1..(k - 1) : Ch(s, j) # sep
         IN  <<SubSeq(s, 1, i - 1)>> \o Split(Drop(s, i), sep)

\* index of the last "/" of a path, 0 when there is none
LastSlash(p) ==
    IF Contains(p, "/")
    THEN CHOOSE k \in 1..Len(p) : Ch(p, k) = "/" /\ \A j \in (k + 1)..Len(p) : Ch(p, j) # "/"
    ELSE 0

\* os.path.basename
Basename(p) == Drop(p, LastSlash(p))

RECURSIVE RStripSlash(_)
RStripSlash(s) ==
    IF Len(s) > 0 /\ Ch(s, Len(s)) = "/" THEN RStripSlash(SubSeq(s, 1, Len(s) - 1)) ELSE s

\* os.path.dirname: the head up to the last "/", trailing slashes removed
\* unless the head consists of slashes only
Dirname(p) ==
    LET head == SubSeq(p, 1, LastSlash(p))
    IN  IF RStripSlash(head) = "" THEN head ELSE RStripSlash(head)

\* os.path.join of two components
Join(a, b) ==
    IF StartsWith(b, "/") THEN b
    ELSE IF a = "" \/ EndsWith(a, "/") THEN a \o b
    ELSE a \o "/" \o b

(***************************************************************************)
(* Python dicts: insertion-ordered sequences of <<key, value>> entries.    *)
(***************************************************************************)
Keys(d) == [i \in 1..Len(d) |-> d[i][1]]

HasKey(d, k) == \E i \in 1..Len(d) : d[i][1] = k

Get(d, k) == d[CHOOSE i \in 1..Len(d) : d[i][1] = k][2]

\* d[k] = v: an existing key keeps its position, a new key goes last
Put(d, k, v) ==
    IF HasKey(d, k)
    THEN [i \in 1..Len(d) |-> IF d[i][1] = k THEN <<k, v>> ELSE d[i]]
    ELSE Append(d, <<k, v>>)

(***************************************************************************)
(* The source tree: the files get_src_list can hand to create_files, each  *)
(* with its lines.                                                         *)
(***************************************************************************)
SourceTree ==
    << <<"/co/essays/a.md",                  <<"# My Essay\n", "body\n">> >>,
       <<"/co/essays/about.md",              <<"plain\n", "# Late heading\n">> >>,
       <<"/co/about/me.md",                  <<"me\n">> >>,
       <<"/co/book-notes/about-lisp/readme.md", <<"\n", "# lisp Notes\n", "text\n">> >>,
       <<"/co/misc/todo.txt",                <<"todo\n">> >>,
       <<"/co/essays/estl-review.md",        <<"# Review\n">> >>,
       <<"/co/book-notes/estl/notes.md",     <<"### Lost\n", "lost\n">> >>,
       <<"/co/book-notes/ecpp/misc/x.py",    <<"pass\n">> >>,
       <<"/co/book-notes/ecpp/it5-a.md",     <<"front\n", "### Foo\n", "alpha\n">> >>,
       <<"/co/book-notes/ecpp/it5-b.md",     <<"### Bar\n", "beta\n">> >>,
       <<"/co/book-notes/ecpp/it12-notes.md", <<"### Use const\n", "text\n", "### Next one\n">> >>,
       <<"/co/book-notes/ecpp/it5/a.cpp",    <<"int x;\n">> >>,
       <<"/co/book-notes/ecpp/it5/b.cc",     <<"int y;\n">> >> >>

Files == {SourceTree[i][1] : i \in 1..Len(SourceTree)}

\* the lines a "for line in infile" loop yields
Lines(f) == Get(SourceTree, f)

RECURSIVE Concat(_)
Concat(ls) == IF Len(ls) = 0 THEN "" ELSE Head(ls) \o Concat(Tail(ls))

\* infile.read()
Read(f) == Concat(Lines(f))

(***************************************************************************)
(* Converter.__init__: the configuration tables.                           *)
(***************************************************************************)
target_path == "gen"

templates ==
    << <<"posts", [dest |-> "content/posts", template |-> "posts.template"]>>,
       <<"notes", [dest |-> "content/notes", template |-> "posts.template"]>>,
       <<"about", [dest |-> "content", template |-> "about.template"]>>,
       <<"emcpp", [dest |-> "content/effectives", tocdest |-> "content/notes",
                   template |-> "posts.template"]>> >>

code_ext == <<"cpp", "c", "sh", "cc", "h", "hpp", "py", "js", "java">>

comment_style ==
    << <<"cpp", "//">>, <<"c", "//">>, <<"cc", "//">>, <<"h", "//">>, <<"hpp", "//">>,
       <<"sh", "#">>, <<"py", "#">>, <<"js", "//">>, <<"java", "//">> >>

canonical_ext ==
    << <<"cpp", "cpp">>, <<"c", "cpp">>, <<"cc", "cpp">>, <<"h", "cpp">>, <<"hpp", "cpp">>,
       <<"sh", "sh">>, <<"py", "python">>, <<"js", "javascript">>, <<"java", "java">> >>

cannonical_book_name ==
    << <<"ecpp", "Effective C++">>, <<"emcpp", "Effective Modern C++">>,
       <<"estl", "Effective STL">>, <<"epython", "Effective Python">> >>

\* the fence of a markdown code block: three backquotes in the source,
\* which a TLA+ string cannot hold; the tilde fence stands for it
Fence == "~~~"

(***************************************************************************)
(* Converter.infer_category                                                *)
(***************************************************************************)
series_markers == <<"emcpp", "ecpp", "estl">>

\* variant: the "book-notes" rule tried before the series markers
infer_category_NotesFirst(filename) ==
    IF Contains(filename, "book-notes") THEN "notes"
    ELSE IF \E i \in 1..Len(series_markers) : Contains(filename, series_markers[i]) THEN "emcpp"
    ELSE IF Contains(filename, "essay") THEN "posts"
    ELSE IF Contains(filename, "about") THEN "about"
    ELSE ""

infer_category(filename) ==
    IF \E i \in 1..Len(series_markers) : Contains(filename, series_markers[i]) THEN "emcpp"
    ELSE IF Contains(filename, "book-notes") THEN "notes"
    ELSE IF Contains(filename, "essay") THEN "posts"
    ELSE IF Contains(filename, "about") THEN "about"
    ELSE ""

(***************************************************************************)
(* Converter.infer_dates: the history collaborator. The created timestamp  *)
(* of a file is a fixed function of its path.                              *)
(***************************************************************************)
infer_dates(filename) == "created(" \o filename \o ")"

(***************************************************************************)
(* Converter.infer_dest_filename                                           *)
(***************************************************************************)
infer_dest_filename(dest_folder, filename) ==
    LET name == IF LowerAll(Strip(Basename(filename))) = "readme.md"
                THEN Basename(Dirname(filename)) \o ".md"
                ELSE filename
    IN  Join(dest_folder, Basename(name))

(***************************************************************************)
(* Converter.process_content                                               *)
(***************************************************************************)
\* the loop over the lines of a markdown file; cnt is the counter's value
\* before the line is read
RECURSIVE ScanLines(_, _, _, _)
ScanLines(lines, cnt, title, content) ==
    IF Len(lines) = 0 THEN [title |-> title, content |-> content]
    ELSE LET line == Head(lines)
             c == cnt + 1
         IN  IF c < 3 /\ StartsWith(Strip(line), "# ") /\ title = ""
             THEN ScanLines(Tail(lines), c,
                            Capitalize(Replace(Strip(line), "# ", "")), content)
             ELSE ScanLines(Tail(lines), c, title, content \o line)

process_content(src_file_name, dest_file_name) ==
    LET r == IF EndsWith(src_file_name, ".md")
             THEN ScanLines(Lines(src_file_name), 1, "", "")
             ELSE [title |-> "", content |-> Read(src_file_name)]
        fallback == Capitalize(Replace(Replace(Replace(Basename(dest_file_name),
                                   "_", " "), "-", " "), ".md", ""))
    IN  [title |-> IF r.title = "" THEN fallback ELSE r.title, content |-> r.content]

(***************************************************************************)
(* The output tree: dirs is the set of existing directories, docs maps a   *)
(* written path to what was written. A document rendered by a template is  *)
(* the record of the template's name and variables (the template           *)
(* collaborator is a function of these); a document written directly is    *)
(* [text |-> ...].                                                         *)
(***************************************************************************)
NoDocs == [p \in {} |-> [text |-> ""]]

\* a directory path and every ancestor of it: what os.makedirs creates
DirChain(d) ==
    LET n == RStripSlash(d)
    IN  ({SubSeq(n, 1, k - 1) : k \in {i \in 1..Len(n) : Ch(n, i) = "/"}} \cup {n}) \ {""}

\* os.path.exists of a directory
Exists(dirset, d) == RStripSlash(d) \in dirset

\* if not os.path.exists(d): os.makedirs(d)
MakeDirs(dirset, d) == IF Exists(dirset, d) THEN dirset ELSE dirset \cup DirChain(d)

\* open(path, "w") succeeds iff the parent directory exists
CanOpen(dirset, path) == Exists(dirset, Dirname(path))

WriteDoc(docset, path, doc) == (path :> doc) @@ docset

(***************************************************************************)
(* Converter.render_default_category                                       *)
(***************************************************************************)
render_default_category(category, filename, dirset, docset) ==
    LET created == infer_dates(filename)
        dest_folder == Join(target_path, Get(templates, category).dest)
        dirs1 == MakeDirs(dirset, dest_folder)
        dest_file == infer_dest_filename(dest_folder, filename)
        tc == process_content(filename, dest_file)
        rendered == [template |-> Get(templates, category).template,
                     created_date |-> created, title |-> tc.title, content |-> tc.content]
    IN  IF CanOpen(dirs1, dest_file)
        THEN [dirs |-> dirs1, docs |-> WriteDoc(docset, dest_file, rendered), err |-> ""]
        ELSE [dirs |-> dirs1, docs |-> docset, err |-> "FileNotFoundError"]

(***************************************************************************)
(* Converter.parse_effective_content                                       *)
(***************************************************************************)
\* re.match("it([0-9]+).*", s) succeeds
ItemMatch(s) == StartsWith(s, "it") /\ Len(s) >= 3 /\ IsDigit(Ch(s, 3))

\* the greedy group ([0-9]+) of a string of digits and more
RECURSIVE DigitRun(_)
DigitRun(s) ==
    IF Len(s) > 0 /\ IsDigit(Ch(s, 1)) THEN Ch(s, 1) \o DigitRun(Drop(s, 1)) ELSE ""

\* int(m.group(1))
ItemNumber(s) == ParseInt(DigitRun(Drop(s, 2)))

RECURSIVE ParseLines(_, _, _)
ParseLines(lines, current_item_num, contents) ==
    IF Len(lines) = 0 THEN contents
    ELSE LET line == Head(lines)
         IN  IF StartsWith(line, "### ")
             THEN ParseLines(Tail(lines), current_item_num + 1,
                             Put(contents, current_item_num + 1,
                                 [title |-> Strip(Replace(line, "### ", "")),
                                  content |-> ""]))
             ELSE IF HasKey(contents, current_item_num)
             THEN LET old == Get(contents, current_item_num)
                  IN  ParseLines(Tail(lines), current_item_num,
                                 Put(contents, current_item_num,
                                     [old EXCEPT !.content = @ \o line]))
             ELSE ParseLines(Tail(lines), current_item_num, contents)

parse_effective_content(filename) ==
    IF ItemMatch(Basename(filename))
    THEN ParseLines(Lines(filename), ItemNumber(Basename(filename)) - 1, <<>>)
    ELSE <<>>

(***************************************************************************)
(* Converter.render_effective_category                                     *)
(***************************************************************************)
\* the book name loop: the segment after the last "book-notes" segment;
\* raises IndexError when "book-notes" is the last segment
BookName(filename) ==
    LET parts == Split(filename, "/")
        hits == {i \in 1..Len(parts) : parts[i] = "book-notes"}
    IN  IF hits = {} THEN [name |-> "", err |-> ""]
        ELSE IF Len(parts) \in hits THEN [name |-> "", err |-> "IndexError"]
        ELSE [name |-> parts[(CHOOSE i \in hits : \A j \in hits : j <= i) + 1], err |-> ""]

\* variant: a key the record already holds keeps its value
MergeItem_KeepFirst(items, item_id, parsed) ==
    IF ~HasKey(items, item_id) THEN Put(items, item_id, parsed)
    ELSE Put(items, item_id,
             [key \in DOMAIN Get(items, item_id) \cup DOMAIN parsed |->
                 IF key \in DOMAIN Get(items, item_id) THEN Get(items, item_id)[key]
                 ELSE parsed[key]])

\* the merge of one parsed item into the book's items
MergeItem(items, item_id, parsed) ==
    IF ~HasKey(items, item_id) THEN Put(items, item_id, parsed)
    ELSE Put(items, item_id,
             [key \in DOMAIN Get(items, item_id) \cup DOMAIN parsed |->
                 IF key \in DOMAIN parsed THEN parsed[key] ELSE Get(items, item_id)[key]])

RECURSIVE MergeNotes(_, _, _)
MergeNotes(items, contents, k) ==
    IF k > Len(contents) THEN items
    ELSE MergeNotes(MergeItem(items, contents[k][1], contents[k][2]), contents, k + 1)

\* variant: a record without a snippet is replaced, not extended
AddSnippet_Reset(items, filename, ext) ==
    LET item_name == Basename(Dirname(filename))
        item_id == ItemNumber(item_name)
        fresh == ("snippet-lang" :> Get(canonical_ext, ext)) @@ ("snippet" :> "")
        items1 == IF ~HasKey(items, item_id) \/ "snippet" \notin DOMAIN Get(items, item_id)
                  THEN Put(items, item_id, fresh)
                  ELSE items
        rec == Get(items1, item_id)
        text == Get(comment_style, ext) \o " " \o Basename(filename) \o "\n"
                \o Read(filename) \o "\n"
    IN  IF ItemMatch(item_name)
        THEN Put(items1, item_id, ("snippet" :> (rec["snippet"] \o text)) @@ rec)
        ELSE items

\* the body of "if filename.endswith(ext)" for one ext
AddSnippet(items, filename, ext) ==
    LET item_name == Basename(Dirname(filename))
        item_id == ItemNumber(item_name)
        fresh == ("snippet-lang" :> Get(canonical_ext, ext)) @@ ("snippet" :> "")
        items1 == IF ~HasKey(items, item_id) THEN Put(items, item_id, fresh)
                  ELSE IF "snippet" \notin DOMAIN Get(items, item_id)
                  THEN Put(items, item_id, fresh @@ Get(items, item_id))
                  ELSE items
        rec == Get(items1, item_id)
        text == Get(comment_style, ext) \o " " \o Basename(filename) \o "\n"
                \o Read(filename) \o "\n"
    IN  IF ItemMatch(item_name)
        THEN Put(items1, item_id, ("snippet" :> (rec["snippet"] \o text)) @@ rec)
        ELSE items

\* for ext in self.code_ext: every ext the file name ends with takes effect
RECURSIVE SnippetLoop(_, _, _)
SnippetLoop(items, filename, k) ==
    IF k > Len(code_ext) THEN items
    ELSE SnippetLoop(IF EndsWith(filename, code_ext[k])
                     THEN AddSnippet(items, filename, code_ext[k])
                     ELSE items,
                     filename, k + 1)

render_effective_category(eff, filename) ==
    LET bn == BookName(filename)
        book_name == bn.name
        eff1 == IF HasKey(eff, book_name) THEN eff ELSE Put(eff, book_name, <<>>)
        items == Get(eff1, book_name)
        items1 == IF EndsWith(filename, ".md")
                  THEN MergeNotes(items, parse_effective_content(filename), 1)
                  ELSE SnippetLoop(items, filename, 1)
    IN  IF bn.err # "" THEN [eff |-> eff, err |-> bn.err]
        ELSE [eff |-> Put(eff1, book_name, items1), err |-> ""]

(***************************************************************************)
(* Converter.create: classification and dispatch of one file               *)
(***************************************************************************)
default_categories == {"notes", "about", "posts"}

create(eff, dirset, docset, filename) ==
    LET category == infer_category(filename)
    IN  IF ~HasKey(templates, category)
        THEN [eff |-> eff, dirs |-> dirset, docs |-> docset, err |-> ""]
        ELSE IF category \in default_categories
        THEN LET r == render_default_category(category, filename, dirset, docset)
             IN  [eff |-> eff, dirs |-> r.dirs, docs |-> r.docs, err |-> r.err]
        ELSE LET r == render_effective_category(eff, filename)
             IN  [eff |-> r.eff, dirs |-> dirset, docs |-> docset, err |-> r.err]

(***************************************************************************)
(* Converter.create_files: the finalization of one book                    *)
(***************************************************************************)
item_id_to_filename(item_id, ext) == "it" \o IntToStr(item_id) \o ext

\* the text written to an item's page
ItemText(item) ==
    "# " \o item["title"] \o "\n" \o item["content"] \o "\n"
    \o (IF "snippet" \in DOMAIN item
        THEN "Snippet:\n" \o Fence \o item["snippet-lang"] \o "\n" \o item["snippet"]
             \o "\n" \o Fence \o "\n"
        ELSE "")

\* the loop over the items of a book: each page is opened (and so
\* truncated) before its title is read; a record without a title raises
\* KeyError and leaves the page empty
RECURSIVE WriteItems(_, _, _, _, _)
WriteItems(items, k, dest_folder, docset, toc) ==
    IF k > Len(items) THEN [docs |-> docset, toc |-> toc, err |-> ""]
    ELSE LET item_id == items[k][1]
             item == items[k][2]
             dest_file == Join(dest_folder, item_id_to_filename(item_id, ".md"))
         IN  IF "title" \notin DOMAIN item
             THEN [docs |-> WriteDoc(docset, dest_file, [text |-> ""]), toc |-> toc,
                   err |-> "KeyError"]
             ELSE WriteItems(items, k + 1, dest_folder,
                             WriteDoc(docset, dest_file, [text |-> ItemText(item)]),
                             Put(toc, item_id, item["title"]))

\* sorted(keys) of integer keys
RECURSIVE Sorted(_)
Sorted(S) ==
    IF S = {} THEN <<>>
    ELSE LET m == CHOOSE x \in S : \A y \in S : x <= y
         IN  <<m>> \o Sorted(S \ {m})

\* variant: the keys in insertion order, the sort left out
TocOrder_Insertion(table_of_content) == Keys(table_of_content)

TocOrder(table_of_content) ==
    Sorted({table_of_content[i][1] : i \in 1..Len(table_of_content)})

\* one line of the table of contents
TocEntry(book_name, item_id, title) ==
    "* [" \o title \o "](/effectives/" \o book_name \o "/"
    \o item_id_to_filename(item_id, "/") \o ")\n"

RECURSIVE TocText(_, _, _, _)
TocText(book_name, table_of_content, order, k) ==
    IF k > Len(order) THEN ""
    ELSE TocEntry(book_name, order[k], Get(table_of_content, order[k]))
         \o TocText(book_name, table_of_content, order, k + 1)

TocPage(book_name) ==
    Join(Join(target_path, Get(templates, "emcpp").tocdest), book_name \o ".md")

\* the body of "for book_name in self.effectives"
FinalizeBook(book_name, items, dirset, docset) ==
    LET dest_folder == Join(Join(target_path, Get(templates, "emcpp").dest), book_name)
        dirs1 == MakeDirs(dirset, dest_folder)
        w == WriteItems(items, 1, dest_folder, docset, <<>>)
        text == TocText(book_name, w.toc, TocOrder(w.toc), 1)
        page == TocPage(book_name)
    IN  IF w.err # "" THEN [dirs |-> dirs1, docs |-> w.docs, err |-> w.err]
        ELSE IF ~CanOpen(dirs1, page)
        THEN [dirs |-> dirs1, docs |-> w.docs, err |-> "FileNotFoundError"]
        ELSE IF ~HasKey(cannonical_book_name, book_name)
        THEN [dirs |-> dirs1, docs |-> WriteDoc(w.docs, page, [text |-> ""]),
              err |-> "KeyError"]
        ELSE [dirs |-> dirs1,
              docs |-> WriteDoc(w.docs, page,
                                [template |-> Get(templates, "emcpp").template,
                                 title |-> Get(cannonical_book_name, book_name),
                                 content |-> text]),
              err |-> ""]

(***************************************************************************)
(* One call of create_files as a function: the loop over infiles, then     *)
(* the loop over the books; the first exception ends the call.             *)
(***************************************************************************)
RECURSIVE CreateAll(_, _, _, _, _)
CreateAll(eff, dirset, docset, infiles_, k) ==
    IF k > Len(infiles_) THEN [eff |-> eff, dirs |-> dirset, docs |-> docset, err |-> ""]
    ELSE LET r == create(eff, dirset, docset, infiles_[k])
         IN  IF r.err # "" THEN r ELSE CreateAll(r.eff, r.dirs, r.docs, infiles_, k + 1)

RECURSIVE FinalizeAll(_, _, _, _)
FinalizeAll(eff, dirset, docset, k) ==
    IF k > Len(eff) THEN [eff |-> eff, dirs |-> dirset, docs |-> docset, err |-> ""]
    ELSE LET r == FinalizeBook(eff[k][1], eff[k][2], dirset, docset)
         IN  IF r.err # "" THEN [eff |-> eff, dirs |-> r.dirs, docs |-> r.docs, err |-> r.err]
             ELSE FinalizeAll(eff, r.dirs, r.docs, k + 1)

create_files(eff, dirset, docset, infiles_) ==
    LET c == CreateAll(eff, dirset, docset, infiles_, 1)
    IN  IF c.err # "" THEN c ELSE FinalizeAll(c.eff, c.dirs, c.docs, 1)

(***************************************************************************)
(* The state machine.                                                      *)
(***************************************************************************)
VARIABLES
    infiles,     \* the file sequence handed to create_files
    dirs0,       \* the directories of the output tree when the first run starts
    pc,          \* "create", "finalize", "done" or "failed"
    pos,         \* index of the next file of infiles (pc = "create") or of
                 \* the next book of effectives (pc = "finalize")
    effectives,  \* self.effectives: book name -> item number -> item record
    dirs,        \* existing directories of the output tree
    docs,        \* written documents of the output tree
    err,         \* the exception that ended the run, "" if none
    category,    \* result of the last infer_category call, "none" before it
    runs,        \* number of create_files calls started
    prevDocs     \* docs at the end of the previous call of create_files

vars == <<infiles, dirs0, pc, pos, effectives, dirs, docs, err, category, runs, prevDocs>>

\* injective sequences of source files of length at most n
RECURSIVE FileSeqs(_)
FileSeqs(n) ==
    IF n = 0 THEN {<<>>}
    ELSE LET shorter == FileSeqs(n - 1)
         IN  shorter \cup {Append(s, f) : s \in {t \in shorter : Len(t) = n - 1},
                                          f \in Files}

InputSeqs == {s \in FileSeqs(MaxFiles) : \A i, j \in 1..Len(s) : i # j => s[i] # s[j]}

\* the output root is empty, or holds the notes directory of an earlier build
InitialDirs == {{}, DirChain(Join(target_path, "content/notes"))}

Init ==
    /\ infiles \in InputSeqs
    /\ dirs0 \in InitialDirs
    /\ pc = "create"
    /\ pos = 1
    /\ effectives = <<>>
    /\ dirs = dirs0
    /\ docs = NoDocs
    /\ err = ""
    /\ category = "none"
    /\ runs = 1
    /\ prevDocs = NoDocs

\* one iteration of "for filename in infiles: self.create(filename)"
Create ==
    /\ pc = "create"
    /\ pos <= Len(infiles)
    /\ LET r == create(effectives, dirs, docs, infiles[pos])
       IN  /\ effectives' = r.eff
           /\ dirs' = r.dirs
           /\ docs' = r.docs
           /\ err' = r.err
           /\ pc' = IF r.err # "" THEN "failed" ELSE "create"
    /\ category' = infer_category(infiles[pos])
    /\ pos' = pos + 1
    /\ UNCHANGED <<infiles, dirs0, runs, prevDocs>>

\* the file loop is over: the book loop starts
StartFinalize ==
    /\ pc = "create"
    /\ pos > Len(infiles)
    /\ pc' = "finalize"
    /\ pos' = 1
    /\ UNCHANGED <<infiles, dirs0, effectives, dirs, docs, err, category, runs, prevDocs>>

\* one iteration of "for book_name in self.effectives"
Finalize ==
    /\ pc = "finalize"
    /\ pos <= Len(effectives)
    /\ LET r == FinalizeBook(effectives[pos][1], effectives[pos][2], dirs, docs)
       IN  /\ dirs' = r.dirs
           /\ docs' = r.docs
           /\ err' = r.err
           /\ pc' = IF r.err # "" THEN "failed" ELSE "finalize"
    /\ pos' = pos + 1
    /\ UNCHANGED <<infiles, dirs0, effectives, category, runs, prevDocs>>

\* create_files returns
Return ==
    /\ pc = "finalize"
    /\ pos > Len(effectives)
    /\ pc' = "done"
    /\ UNCHANGED <<infiles, dirs0, pos, effectives, dirs, docs, err, category, runs, prevDocs>>

\* create_files is called again on the same Converter with the same files
Rerun ==
    /\ pc = "done"
    /\ runs < MaxRuns
    /\ runs' = runs + 1
    /\ prevDocs' = docs
    /\ pc' = "create"
    /\ pos' = 1
    /\ UNCHANGED <<infiles, dirs0, effectives, dirs, docs, err, category>>

Next == Create \/ StartFinalize \/ Finalize \/ Return \/ Rerun

Spec == Init /\ [][Next]_vars

(***************************************************************************)
(* Vocabulary of the properties.                                           *)
(***************************************************************************)
IsSeries(f) == infer_category(f) = "emcpp"

\* a notes file of a series
IsNotes(f) == IsSeries(f) /\ EndsWith(f, ".md")

\* a snippet file of a series: its name ends with a configured extension
IsSnippet(f) ==
    IsSeries(f) /\ ~EndsWith(f, ".md") /\ \E i \in 1..Len(code_ext) : EndsWith(f, code_ext[i])

SeriesOf(f) == BookName(f).name

\* the files handled so far by the file loop of the current call
Handled == IF pc = "create" THEN pos - 1 ELSE Len(infiles)

\* the file the last Create step handled
LastFile == infiles[pos - 1]

\* the file loop has just handled the files a then b, in this order
JustHandled(a, b) ==
    /\ pc = "create"
    /\ pos >= 3
    /\ infiles[pos - 2] = a
    /\ infiles[pos - 1] = b

\* the item record of (book, n) in the accumulation state
HasItem(book, n) == HasKey(effectives, book) /\ HasKey(Get(effectives, book), n)

Item(book, n) == Get(Get(effectives, book), n)

ItemPage(book, n) ==
    Join(Join(Join(target_path, "content/effectives"), book), "it" \o IntToStr(n) \o ".md")

\* the strictly ascending enumeration of a finite set of numbers
Ascending(S) ==
    CHOOSE s \in [1..Cardinality(S) -> S] : \A i, j \in 1..Cardinality(S) : i < j => s[i] < s[j]

(***************************************************************************)
(* C1. Two notes files of one series handled one after the other, both     *)
(* contributing item n.                                                    *)
(***************************************************************************)
ParsedIds(f) == {parse_effective_content(f)[i][1] : i \in 1..Len(parse_effective_content(f))}

SharedItems(a, b) == ParsedIds(a) \cap ParsedIds(b)

NotesPair(a, b) ==
    /\ a # b
    /\ IsNotes(a) /\ IsNotes(b)
    /\ SeriesOf(a) = SeriesOf(b)
    /\ SharedItems(a, b) # {}

C1_RecordReplaced ==
    (pc = "create" /\ pos >= 3 /\ NotesPair(infiles[pos - 2], infiles[pos - 1])) =>
        LET b == parse_effective_content(infiles[pos - 1])
            book == SeriesOf(infiles[pos - 1])
        IN  \A n \in SharedItems(infiles[pos - 2], infiles[pos - 1]) :
                /\ Item(book, n)["title"] = Get(b, n).title
                /\ Item(book, n)["content"] = Get(b, n).content

\* C1 amended, the page: when the call returns and a, b were its last two
\* files, the item's page starts with b's title heading and b's prose and
\* holds nothing of a's prose.
C1_PageReplaced ==
    (/\ pc = "done" /\ Len(infiles) >= 2
     /\ NotesPair(infiles[Len(infiles) - 1], infiles[Len(infiles)])) =>
        LET a == parse_effective_content(infiles[Len(infiles) - 1])
            b == parse_effective_content(infiles[Len(infiles)])
            book == SeriesOf(infiles[Len(infiles)])
        IN  \A n \in SharedItems(infiles[Len(infiles) - 1], infiles[Len(infiles)]) :
                /\ ItemPage(book, n) \in DOMAIN docs
                /\ StartsWith(docs[ItemPage(book, n)].text,
                              "# " \o Get(b, n).title \o "\n" \o Get(b, n).content \o "\n")
                /\ Get(a, n).content # "" =>
                      ~Contains(docs[ItemPage(book, n)].text, Get(a, n).content)

HasSeriesMarker(f) == Contains(f, "emcpp") \/ Contains(f, "ecpp") \/ Contains(f, "estl")

\* C3: the category inferred for a file is Series when its path holds a
\* series marker, whatever else it holds; else Prose-Note when it holds
\* "book-notes"; else Prose-Post when it holds "essay"; else Prose-About
\* when it holds "about"; else none. The file is dispatched accordingly: a
\* Series file registers its series, a prose file writes its page.
C3_FirstRuleWins ==
    (pc = "create" /\ pos > 1) =>
        /\ HasSeriesMarker(LastFile) => category = "emcpp"
        /\ (~HasSeriesMarker(LastFile) /\ Contains(LastFile, "book-notes")) => category = "notes"
        /\ (/\ ~HasSeriesMarker(LastFile) /\ ~Contains(LastFile, "book-notes")
            /\ Contains(LastFile, "essay")) => category = "posts"
        /\ (/\ ~HasSeriesMarker(LastFile) /\ ~Contains(LastFile, "book-notes")
            /\ ~Contains(LastFile, "essay") /\ Contains(LastFile, "about")) => category = "about"
        /\ (/\ ~HasSeriesMarker(LastFile) /\ ~Contains(LastFile, "book-notes")
            /\ ~Contains(LastFile, "essay") /\ ~Contains(LastFile, "about")) => category = ""
        /\ category = "emcpp" => HasKey(effectives, SeriesOf(LastFile))
        /\ category = "notes" =>
              infer_dest_filename(Join(target_path, "content/notes"), LastFile) \in DOMAIN docs
        /\ category = "posts" =>
              infer_dest_filename(Join(target_path, "content/posts"), LastFile) \in DOMAIN docs
        /\ category = "about" =>
              infer_dest_filename(Join(target_path, "content"), LastFile) \in DOMAIN docs

\* a file matching the series rule and a later rule was classified
C3_Witness ==
    /\ pc = "create" /\ pos > 1
    /\ HasSeriesMarker(LastFile)
    /\ Contains(LastFile, "book-notes") \/ Contains(LastFile, "essay")
    /\ category = "emcpp"

(***************************************************************************)
(* C4. The table of contents.                                              *)
(***************************************************************************)
\* the books whose finalization the current call has completed
Finalized ==
    IF pc = "done" THEN 1..Len(effectives)
    ELSE IF pc = "finalize" THEN 1..(pos - 1)
    ELSE {}

ItemIds(items) == {items[i][1] : i \in 1..Len(items)}

RECURSIVE EntriesOf(_, _, _, _)
EntriesOf(book, items, order, k) ==
    IF k > Len(order) THEN ""
    ELSE "* [" \o Get(items, order[k])["title"] \o "](/effectives/" \o book \o "/it"
         \o IntToStr(order[k]) \o "/)\n" \o EntriesOf(book, items, order, k + 1)

\* C4: the table of contents written for a series holds exactly one entry
\* per item number of the series, in strictly ascending order of the item
\* numbers, whatever the order the items were contributed in.
C4_TocAscending ==
    \A k \in Finalized :
        LET book == effectives[k][1]
            items == effectives[k][2]
        IN  /\ TocPage(book) \in DOMAIN docs
            /\ docs[TocPage(book)].content
                  = EntriesOf(book, items, Ascending(ItemIds(items)), 1)

\* a finalized series whose items were contributed out of numeric order
C4_Witness ==
    \E k \in Finalized :
        /\ Len(effectives[k][2]) >= 2
        /\ Keys(effectives[k][2]) # Ascending(ItemIds(effectives[k][2]))
        /\ TocPage(effectives[k][1]) \in DOMAIN docs

(***************************************************************************)
(* C2. Two snippet files of one item directory.                            *)
(***************************************************************************)
\* the extension of a file name: what follows its last "."
RECURSIVE AfterLastDot(_)
AfterLastDot(s) == IF Contains(s, ".") THEN AfterLastDot(Drop(s, 1)) ELSE s

ExtOf(f) == AfterLastDot(Basename(f))

\* a snippet file under an it<N>/ directory, with a configured extension
ItemSnippet(f) ==
    /\ IsSnippet(f)
    /\ HasKey(canonical_ext, ExtOf(f))
    /\ ItemMatch(Basename(Dirname(f)))

SnippetItem(f) == ItemNumber(Basename(Dirname(f)))

\* comment header, content and blank line of one snippet file
SnippetBlock(f) ==
    Get(comment_style, ExtOf(f)) \o " " \o Basename(f) \o "\n" \o Read(f) \o "\n"

\* C2 as stated: when the first two files of the first call are snippet
\* files a, b of one it<N>/ directory whose extensions have the same
\* canonical language, the item's snippet buffer is a's block followed by
\* b's block, each exactly once.
C2_EachSnippetOnce ==
    (/\ runs = 1 /\ pc = "create" /\ pos = 3
     /\ ItemSnippet(infiles[1]) /\ ItemSnippet(infiles[2])
     /\ Dirname(infiles[1]) = Dirname(infiles[2])
     /\ Get(canonical_ext, ExtOf(infiles[1])) = Get(canonical_ext, ExtOf(infiles[2]))) =>
        Item(SeriesOf(infiles[2]), SnippetItem(infiles[2]))["snippet"]
            = SnippetBlock(infiles[1]) \o SnippetBlock(infiles[2])

(***************************************************************************)
(* C5. Title inference of process_content.                                 *)
(***************************************************************************)
IsHeading1(line) == StartsWith(Strip(line), "# ")

\* the position, among the first two lines, of the first non-blank line
\* when that line is a level-1 heading; 0 otherwise
EarlyHeading(lines) ==
    IF Len(lines) >= 1 /\ Strip(lines[1]) # ""
    THEN (IF IsHeading1(lines[1]) THEN 1 ELSE 0)
    ELSE IF Len(lines) >= 2 /\ Strip(lines[2]) # "" /\ IsHeading1(lines[2]) THEN 2
    ELSE 0

\* the lines but the k-th, joined
RECURSIVE BodyWithout(_, _, _)
BodyWithout(lines, k, i) ==
    IF i > Len(lines) THEN ""
    ELSE (IF i = k THEN "" ELSE lines[i]) \o BodyWithout(lines, k, i + 1)

\* the page a prose file is rendered to
ProsePage(f) == infer_dest_filename(Join(target_path, Get(templates, infer_category(f)).dest), f)

\* C5 as stated: a markdown prose file whose first non-blank line, within
\* its first two lines, is a level-1 heading is rendered with that
\* heading's text (marker stripped, trimmed, capitalized) as title and
\* without that line in the body; any other file has the title derived
\* from the destination file name and the whole file as body.
C5_HeadingInFirstTwoLines ==
    (/\ pc = "create" /\ pos > 1
     /\ category \in default_categories
     /\ EndsWith(LastFile, ".md")) =>
        LET lines == Lines(LastFile)
            h == EarlyHeading(lines)
            page == docs[ProsePage(LastFile)]
        IN  IF h > 0
            THEN /\ page.title = Capitalize(Strip(Drop(Strip(lines[h]), 2)))
                 /\ page.content = BodyWithout(lines, h, 1)
            ELSE /\ page.title = Capitalize(Replace(Replace(Replace(
                                     Basename(ProsePage(LastFile)), "_", " "), "-", " "),
                                     ".md", ""))
                 /\ page.content = Read(LastFile)

(***************************************************************************)
(* C6. A notes file and a snippet file of one item, in either order.       *)
(***************************************************************************)
\* s with the entries at i and i + 1 exchanged
Swap(s, i) ==
    [k \in 1..Len(s) |-> IF k = i THEN s[i + 1] ELSE IF k = i + 1 THEN s[i] ELSE s[k]]

\* the state after r complete calls of create_files on one Converter
RECURSIVE AfterRuns(_, _, _)
AfterRuns(seq, d0, r) ==
    IF r = 0 THEN [eff |-> <<>>, dirs |-> d0, docs |-> NoDocs, err |-> ""]
    ELSE LET p == AfterRuns(seq, d0, r - 1)
         IN  IF p.err # "" THEN p ELSE create_files(p.eff, p.dirs, p.docs, seq)

\* a is a notes file and b a snippet file of the same series, and the
\* item of b's directory is one of the items of a
NotesThenSnippet(a, b) ==
    /\ IsNotes(a) /\ IsSnippet(b)
    /\ SeriesOf(a) = SeriesOf(b)
    /\ ItemMatch(Basename(Dirname(b)))
    /\ SnippetItem(b) \in ParsedIds(a)

MixedPair(a, b) == NotesThenSnippet(a, b) \/ NotesThenSnippet(b, a)

PairItem(a, b) == IF IsNotes(a) THEN SnippetItem(b) ELSE SnippetItem(a)

\* C6, the record: once a notes file and a snippet file of the same item
\* were handled one after the other, the item's record (title, prose,
\* snippet language, snippet text) is the one the other order yields.
C6_RecordOrderFree ==
    (pc = "create" /\ pos >= 3 /\ MixedPair(infiles[pos - 2], infiles[pos - 1])) =>
        LET swapped == Swap(infiles, pos - 2)
            start == AfterRuns(swapped, dirs0, runs - 1)
            other == CreateAll(start.eff, start.dirs, start.docs,
                               SubSeq(swapped, 1, pos - 1), 1)
            book == SeriesOf(infiles[pos - 1])
            n == PairItem(infiles[pos - 2], infiles[pos - 1])
        IN  /\ HasItem(book, n)
            /\ DOMAIN Item(book, n) = {"title", "content", "snippet", "snippet-lang"}
            /\ Item(book, n) = Get(Get(other.eff, book), n)

\* C6, the page: when the call returns, the documents are those the other
\* order yields, and the item's page holds the title heading and the
\* fenced snippet block.
C6_PageOrderFree ==
    pc = "done" =>
        \A i \in 1..(Len(infiles) - 1) :
            MixedPair(infiles[i], infiles[i + 1]) =>
                LET other == AfterRuns(Swap(infiles, i), dirs0, runs)
                    book == SeriesOf(infiles[i])
                    n == PairItem(infiles[i], infiles[i + 1])
                    text == docs[ItemPage(book, n)].text
                IN  /\ other.err = ""
                    /\ other.docs = docs
                    /\ StartsWith(text, "# " \o Item(book, n)["title"] \o "\n")
                    /\ EndsWith(text, "Snippet:\n" \o Fence \o Item(book, n)["snippet-lang"]
                                      \o "\n" \o Item(book, n)["snippet"] \o "\n" \o Fence
                                      \o "\n")
                    /\ Item(book, n)["snippet"] # ""

\* C6: merging a notes file and a snippet file of one item does not depend
\* on which of the two is handled first.
C6_OrderFree == C6_RecordOrderFree /\ C6_PageOrderFree

\* a call on a snippet file then the notes file of its item has returned
C6_Witness ==
    /\ pc = "done"
    /\ Len(infiles) = 2
    /\ NotesThenSnippet(infiles[2], infiles[1])
    /\ ItemPage(SeriesOf(infiles[1]), SnippetItem(infiles[1])) \in DOMAIN docs

(***************************************************************************)
(* C7. A second call of create_files on the same files.                    *)
(***************************************************************************)
\* C7 as stated: a second call of create_files on the same files writes
\* the documents of the first call again, unchanged, and works on its own
\* item records only (the accumulation state of the first call is gone).
C7_RerunIdentical ==
    (pc = "done" /\ runs >= 2) =>
        /\ docs = prevDocs
        /\ effectives = CreateAll(<<>>, dirs0, NoDocs, infiles, 1).eff

(***************************************************************************)
(* C8. A Series file without an item number.                               *)
(***************************************************************************)
\* a file of a known series whose it<N> pattern fails to match
Unmatched(f) ==
    /\ IsSeries(f)
    /\ HasKey(cannonical_book_name, SeriesOf(f))
    /\ \/ EndsWith(f, ".md") /\ ~ItemMatch(Basename(f))
       \/ IsSnippet(f) /\ ~ItemMatch(Basename(Dirname(f)))

\* s without its i-th entry
Without(s, i) == SubSeq(s, 1, i - 1) \o SubSeq(s, i + 1, Len(s))

\* C8 as stated: with the notes directory in place, a first call whose
\* input holds a Series file without an item number ends as the call
\* without that file ends: with the same error state and the same written
\* documents.
C8_UnmatchedFileIsNoOp ==
    (runs = 1 /\ pc \in {"done", "failed"} /\ dirs0 # {}) =>
        \A i \in 1..Len(infiles) :
            Unmatched(infiles[i]) =>
                LET other == create_files(<<>>, dirs0, NoDocs, Without(infiles, i))
                IN  /\ err = other.err
                    /\ docs = other.docs

(***************************************************************************)
(* C9. The finalization emits every item.                                  *)
(***************************************************************************)
KnownBooks == \A k \in 1..Len(effectives) : HasKey(cannonical_book_name, effectives[k][1])

\* C9 as stated: with the notes directory in place and known series only,
\* the finalization does not fail, and it has written a page for every
\* item of every series it has finalized, a snippet-only item included,
\* and the table of contents of the series.
C9_EveryItemEmitted ==
    (dirs0 # {} /\ KnownBooks /\ err # "IndexError") =>
        /\ pc # "failed"
        /\ \A k \in Finalized :
              /\ TocPage(effectives[k][1]) \in DOMAIN docs
              /\ \A n \in ItemIds(effectives[k][2]) :
                    ItemPage(effectives[k][1], n) \in DOMAIN docs

(***************************************************************************)
(* C10. Destination directories.                                           *)
(***************************************************************************)
\* C10 as stated: no write of a call on files of known series fails for a
\* missing destination directory, whatever the files and the state of the
\* output root.
C10_DirectoryExistsAtWrite == KnownBooks => err # "FileNotFoundError"

=============================================================================
